---- MODULE Spec2Model ----
(***************************************************************************)
(* Model of src/parser.py: the crawl orchestrator crawl_and_export with    *)
(* its frontier (queue, seen), the admission policy, sitemap seeding, the  *)
(* two fetch strategies, page processing and the renderer's release.       *)
(*                                                                         *)
(* A URL is a record [scheme, host, path, frag, bad]: path is the sequence *)
(* of path segments ("/" and "" are both <<>>), frag the fragment ("" when *)
(* absent), bad marks a string on which urlparse/urljoin raise ValueError  *)
(* (such as "http://[bad").  A relative reference has scheme = host = "".  *)
(***************************************************************************)
EXTENDS Integers, Sequences, FiniteSets, TLC

VARIABLES
    cfg,        \* the arguments of crawl_and_export
    pc,         \* position of the single thread of control
    rp,         \* the robots parser built at line 278 ([present, disallow])
    renderer,   \* "none" | "open" | "closed": the JSRenderer's browser session
    closes,     \* number of calls of renderer.close()
    sitemaps,   \* sitemap candidates not yet visited by the for loop of line 298
    urls,       \* entries of the current candidate not yet visited (line 302)
    smlog,      \* history of seeding: n sitemaps with entries read so far, the
                \* last of them (doc), whether a sitemap fetch has failed, the
                \* entries of doc fetched as sitemaps (nested), and the number of
                \* entries left unvisited when a fetch failed (dropped)
    queue,      \* the frontier deque
    seen,       \* the seen-set
    records,    \* the result sequence
    url,        \* the URL dequeued by the current iteration (line 313)
    final_url,  \* the URL the fetch layer reported (lines 317/319)
    exc,        \* TRUE while an exception propagates out of the loop body
    exported,   \* what the exporter was handed (lines 349-353), or NotExported
    sleeps,     \* number of politeness delays taken (line 344)
    enqlog,     \* history: every URL appended to queue, in order
    deqlog,     \* history: every URL popped from queue, in order
    fetched,    \* history: the URLs whose page fetch succeeded, in order
    nav,        \* the rendered strategy: gotos counts the page.goto calls made so
                \* far, last sums up what the renderer.get of this iteration did
    probe       \* a single call of one of the module's functions, outside a
                \* crawl: [fn, arg, called, ret]

vars == <<cfg, pc, rp, renderer, closes, sitemaps, urls, smlog, queue, seen,
          records, url, final_url, exc, exported, sleeps, enqlog, deqlog,
          fetched, nav, probe>>

----------------------------------------------------------------------------
(* Bounds of the model *)

MaxBudget == 2      \* max_pages ranges over 0..MaxBudget
MaxLinks == 2       \* a page holds at most MaxLinks anchors
MaxStr == 5         \* longest string given to normalize_ws
MaxEls == 2         \* a container holds at most MaxEls elements
MaxRetries == 3     \* largest retries given to fetch when it is called on its own

----------------------------------------------------------------------------
(* URLs *)

U(s, h, p, f) == [scheme |-> s, host |-> h, path |-> p, frag |-> f, bad |-> FALSE]

BadUrl == [scheme |-> "http", host |-> "[bad", path |-> <<>>, frag |-> "", bad |-> TRUE]
NoUrl == U("", "", <<>>, "")

SiteHost == "www.focode.org"
Home == U("https", SiteHost, <<>>, "")
Mag == U("https", SiteHost, <<"focode">>, "")
PA == U("https", SiteHost, <<"focode", "a">>, "")
PAf == U("https", SiteHost, <<"focode", "a">>, "top")
PB == U("https", "WWW.FOCODE.ORG", <<"focode", "b">>, "")
Ext == U("https", "evil.example", <<"focode", "a">>, "")
Rel == U("", "", <<"focode", "c">>, "")
Mail == U("mailto", "", <<"someone">>, "")
Sm1 == U("https", SiteHost, <<"sm1.xml">>, "")
Sm2 == U("https", SiteHost, <<"sm2.xml">>, "")
Sm3 == U("https", SiteHost, <<"sm3">>, "")
SmBad == U("https", SiteHost, <<"smbad.xml">>, "")

\* str.lower() on the host names of the model
Lower(h) == IF h = "WWW.FOCODE.ORG" THEN SiteHost ELSE h

\* the file names that end with ".xml"
XmlNames == {"sm1.xml", "sm2.xml", "smbad.xml", "smr.xml", "sitemap_index.xml", "sitemap.xml"}

\* u.endswith(".xml") on the whole URL string (line 303)
EndsWithXml(u) == u.frag = "" /\ Len(u.path) > 0 /\ u.path[Len(u.path)] \in XmlNames

urldefrag(u) == [u EXCEPT !.frag = ""]

\* urljoin(base, url); Raise is signalled by the bad flag of the result
absolutize(u, base) ==
    IF u.bad \/ base.bad THEN BadUrl
    ELSE IF u.scheme # "" THEN u
    ELSE [scheme |-> base.scheme, host |-> base.host,
          path |-> IF u.path = <<>> THEN base.path ELSE u.path,
          frag |-> u.frag, bad |-> FALSE]

same_site_scheme(a, b) == a.scheme = b.scheme

same_site(a, b) == Lower(a.host) = Lower(b.host)

is_http_url(u) == u.scheme \in {"http", "https"}

get_slug(u) == IF u.path = <<>> THEN "home" ELSE u.path[Len(u.path)]

----------------------------------------------------------------------------
(* Configuration *)

\* DEFAULT_ALLOWED_PATH_RE (line 29) and the pattern of the usage line 379
DefaultPattern == "^/(focodemag|focode)[^?#]*$"
MagPattern == "^/focodemag.*$"

\* allowed_re.match(path): the first segment of a path of the model decides
re_match(pattern, path) ==
    /\ Len(path) > 0
    /\ path[1] \in (IF pattern = DefaultPattern THEN {"focode", "focodemag"}
                     ELSE {"focodemag"})

NoRobots == [present |-> FALSE, disallow |-> {}]
RobotPolicies == {[present |-> TRUE, disallow |-> {<<"focode", "a">>}]}

can_fetch(r, u) == u.path \notin r.disallow

\* the default of --retries (line 362)
DefaultRetries == 3

Configs ==
    [start_url : {Home, Mag, BadUrl},
     max_pages : 0..MaxBudget,
     retries : {DefaultRetries},
     sleep_s : {0, 1},
     obey_robots : BOOLEAN,
     allowed_path_re : {DefaultPattern, MagPattern},
     use_js : BOOLEAN]

NotExported == <<"not exported">>

----------------------------------------------------------------------------
(* Documents the site serves *)

\* a sitemap document: the local name of its root element and its <loc> texts
Doc(shape, locs) == [shape |-> shape, locs |-> locs]
NoDoc == Doc("other", <<>>)

\* what lives at the URLs a sitemap entry can name
SitemapAt(u) ==
    CASE u = Sm1 -> Doc("urlset", <<PA, Ext>>)
      [] u = Sm2 -> Doc("urlset", <<PAf, PB>>)
      [] u = Sm3 -> Doc("urlset", <<PB>>)
      [] u = SmBad -> Doc("urlset", <<BadUrl, PB>>)
      [] OTHER -> NoDoc

SeqsUpTo(S, n) == UNION {[1..k -> S] : k \in 0..n}

\* the documents a sitemap candidate may turn out to be
TopDocs ==
    {Doc("sitemapindex", <<Sm1, Sm2>>),
     Doc("sitemapindex", <<Sm1, Sm3>>),
     Doc("sitemapindex", <<SmBad, Sm2>>),
     Doc("urlset", <<PB, PAf>>),
     Doc("urlset", <<BadUrl, PA>>),
     Doc("urlset", <<PA, Sm2>>),
     Doc("malformed", <<PA>>),
     NoDoc}

\* the Sitemap: lines robots.txt may carry
SmRobots == U("https", SiteHost, <<"smr.xml">>, "")
SitemapLines(c) == {<<>>, <<SmRobots>>, <<[c.start_url EXCEPT !.path = <<"sitemap.xml">>]>>}

\* an HTML page: its anchors' hrefs and the elements extract_title reads
Absent == "<absent>"
NoString == "<None>"
Heads ==
    {[og |-> Absent, tw |-> Absent, h1 |-> Absent, title |-> "DOC"],
     [og |-> Absent, tw |-> Absent, h1 |-> Absent, title |-> NoString]}
\* normalize_ws on the texts of a page head, where Blank is the one text made
\* of white space only
Blank == " "
norm(v) == IF v = Blank THEN "" ELSE v

\* every head extract_title tells apart: a meta tag is absent, has no or an
\* empty content, a blank one, or a text; an h1 is absent or has the text
\* get_text gives; a title element is absent, has no string, a blank one or a text
HeadCases ==
    [og : {Absent, "", Blank, "OG"}, tw : {Absent, "", Blank, "TW"},
     h1 : {Absent, "", "H1"}, title : {Absent, NoString, Blank, "DOC"}]
Hrefs == {PAf, PB, Ext, Rel, Mail, BadUrl}
Pages == {[links |-> l, head |-> t] : l \in SeqsUpTo(Hrefs, MaxLinks), t \in Heads}

\* the URL a fetch of u may report: u itself or the target of a redirect
FinalUrls(u) == {u, Ext}

----------------------------------------------------------------------------
(* Pure functions of the source *)

\* list(dict.fromkeys(s)): order-preserving removal of duplicates
RECURSIVE Dedup(_)
Dedup(s) ==
    IF s = <<>> THEN <<>>
    ELSE LET d == Dedup(SubSeq(s, 1, Len(s) - 1))
             x == s[Len(s)]
         IN IF \E i \in 1..Len(d) : d[i] = x THEN d ELSE Append(d, x)

discover_sitemaps(c, lines) ==
    Dedup(lines \o <<[c.start_url EXCEPT !.path = <<"sitemap_index.xml">>, !.frag = ""],
                     [c.start_url EXCEPT !.path = <<"sitemap.xml">>, !.frag = ""]>>)

parse_sitemap_urls(d) ==
    IF d.shape \in {"sitemapindex", "urlset"} THEN d.locs ELSE <<>>

\* a string is the sequence of its characters; "a" stands for any character
\* that is not white space
HSpace == {" ", "\t"}
Whitespace == HSpace \cup {"\n"}
Chars == {"a"} \cup Whitespace
Strings == SeqsUpTo(Chars, MaxStr)

RECURSIVE DropLeading(_, _)
DropLeading(s, set) ==
    IF s = <<>> \/ Head(s) \notin set THEN s ELSE DropLeading(Tail(s), set)

Reverse(s) == [i \in 1..Len(s) |-> s[Len(s) + 1 - i]]

\* str.strip()
strip(s) == Reverse(DropLeading(Reverse(DropLeading(s, Whitespace)), Whitespace))

RECURSIVE sub_hspace_pairs(_)
sub_hspace_pairs(s) ==
    IF s = <<>> THEN <<>>
    ELSE IF Head(s) \in HSpace
         THEN <<" ">> \o sub_hspace_pairs(
                  IF Len(s) >= 2 /\ s[2] \in HSpace THEN Tail(Tail(s)) ELSE Tail(s))
         ELSE <<Head(s)>> \o sub_hspace_pairs(Tail(s))

\* line 93: re.sub(r"[ \t\r\f\v]+", " ", s): every maximal run becomes one space
RECURSIVE sub_hspace(_)
sub_hspace(s) ==
    IF s = <<>> THEN <<>>
    ELSE IF Head(s) \in HSpace
         THEN <<" ">> \o sub_hspace(DropLeading(s, HSpace))
         ELSE <<Head(s)>> \o sub_hspace(Tail(s))

\* line 94: re.sub(r"\n{3,}", "\n\n", s): every maximal run of three or more
\* newlines becomes two
RECURSIVE sub_newlines(_)
sub_newlines(s) ==
    IF s = <<>> THEN <<>>
    ELSE IF Head(s) = "\n"
         THEN LET rest == DropLeading(s, {"\n"})
                  n == Len(s) - Len(rest)
              IN (IF n >= 3 THEN <<"\n", "\n">> ELSE SubSeq(s, 1, n))
                     \o sub_newlines(rest)
         ELSE <<Head(s)>> \o sub_newlines(Tail(s))

\* lines 92-95
normalize_ws(s) == strip(sub_newlines(sub_hspace(s)))

\* what a call of fetch does, in order
Get(n) == [op |-> "get", n |-> n]         \* the n-th session.get
Sleep(d) == [op |-> "sleep", n |-> d]     \* time.sleep of d * 0.8 s (and jitter)

RECURSIVE fetch_from_sleepy(_, _, _)
fetch_from_sleepy(outs, retries, attempt) ==
    IF attempt > retries
    THEN [ok |-> FALSE, err |-> attempt, events |-> <<>>]
    ELSE IF outs[attempt + 1]
         THEN [ok |-> TRUE, err |-> 0, events |-> <<Get(attempt + 1)>>]
         ELSE [fetch_from_sleepy(outs, retries, attempt + 1) EXCEPT
                  !.events = <<Get(attempt + 1), Sleep(2 ^ attempt)>> \o @]

\* the cleaned container as extract_blocks sees it: the elements in document
\* order, each with the characters of its text; "div" stands for any element
\* find_all is not asked for.  A list has one li, which holds the text.
\* Containers of the model hold no img
Names == {"h1", "h2", "h6", "p", "ul", "blockquote", "pre", "div"}
Texts == {<<>>, <<" ">>, <<"a">>, <<" ", "a", "\t", " ", "a">>}
Elements == [name : Names, text : Texts]
Containers == SeqsUpTo(Elements, MaxEls)

\* line 187: the names find_all selects
Searched == {"h1", "h2", "h3", "h4", "h5", "p", "ul", "ol", "blockquote", "pre", "img"}

\* int(name[1])
Level(name) ==
    CASE name = "h1" -> 1 [] name = "h2" -> 2 [] name = "h3" -> 3
      [] name = "h4" -> 4 [] name = "h5" -> 5 [] name = "h6" -> 6

\* el.get_text(sep, strip=True) of an element with one text node: the node
\* stripped, nothing when it is blank
get_text(el) == strip(el.text)

ContentBlock(type, level, text) == [type |-> type, level |-> level, text |-> text]

\* lines 190-211: the blocks one selected element gives (level 0: no level)
block_of(el) ==
    LET txt == normalize_ws(get_text(el)) IN
    IF el.name \in {"h1", "h2", "h3", "h4", "h5", "h6"}
    THEN IF txt # <<>> THEN <<ContentBlock("heading", Level(el.name), txt)>> ELSE <<>>
    ELSE IF el.name = "p"
    THEN IF txt # <<>> THEN <<ContentBlock("paragraph", 0, txt)>> ELSE <<>>
    ELSE IF el.name \in {"ul", "ol"}
    THEN IF normalize_ws(el.text) # <<>> THEN <<ContentBlock("list", 0, <<txt>>)>> ELSE <<>>
    ELSE IF el.name = "blockquote"
    THEN IF txt # <<>> THEN <<ContentBlock("quote", 0, txt)>> ELSE <<>>
    ELSE IF el.name = "pre"
    THEN IF get_text(el) # <<>> THEN <<ContentBlock("code", 0, get_text(el))>> ELSE <<>>
    ELSE <<>>

\* lines 178-212, the blocks
RECURSIVE extract_blocks(_)
extract_blocks(els) ==
    IF els = <<>> THEN <<>>
    ELSE (IF Head(els).name \in Searched THEN block_of(Head(els)) ELSE <<>>)
             \o extract_blocks(Tail(els))

\* the static fetch, from the iteration `attempt` of the loop of line 258 on:
\* outs[i] tells whether the i-th GET succeeds.  The result tells whether the
\* call returned (ok) or raised, lists its GETs and sleeps, and on a raise
\* names the attempt whose exception last_err held (0: None)
RECURSIVE fetch_from(_, _, _)
fetch_from(outs, retries, attempt) ==
    IF attempt > retries
    THEN [ok |-> FALSE, err |-> attempt, events |-> <<>>]
    ELSE IF outs[attempt + 1]
         THEN [ok |-> TRUE, err |-> 0, events |-> <<Get(attempt + 1)>>]
         ELSE [fetch_from(outs, retries, attempt + 1) EXCEPT
                  !.events = <<Get(attempt + 1)>>
                               \o (IF attempt < retries THEN <<Sleep(2 ^ attempt)>>
                                   ELSE <<>>)
                               \o @]

fetch(outs, retries) == fetch_from(outs, retries, 0)

\* the responses of the server to the GETs of one fetch, and what fetch can
\* make of them
Outcomes(retries) == [1..(retries + 1) -> BOOLEAN]
FetchResults(retries) == {[ok |-> fetch(outs, retries).ok] : outs \in Outcomes(retries)}

\* extract_title: the title string, or Raise when normalize_ws gets None.  A
\* meta tag counts when its content is truthy, an h1 when it is there
Raise == "<TypeError>"
extract_title(h) ==
    IF h.og \notin {Absent, ""} THEN norm(h.og)
    ELSE IF h.tw \notin {Absent, ""} THEN norm(h.tw)
    ELSE IF h.h1 # Absent THEN norm(h.h1)
    ELSE IF h.title = Absent THEN ""
    ELSE IF h.title = NoString THEN Raise
    ELSE norm(h.title)

----------------------------------------------------------------------------
(* The frontier *)

allowed_failclosed(c, r, u) ==
    /\ is_http_url(u) /\ same_site(u, c.start_url)
    /\ re_match(c.allowed_path_re, u.path)
    /\ (c.obey_robots => (r.present /\ can_fetch(r, u)))

\* lines 284-288; r is None (NoRobots) when robots compliance is off or the
\* robots file could not be loaded
allowed(c, r, u) ==
    /\ is_http_url(u) /\ same_site(u, c.start_url)
    /\ re_match(c.allowed_path_re, u.path)
    /\ ~(r.present /\ ~can_fetch(r, u))

\* the frontier as a value: queue, seen, the log of appends, and err = TRUE once
\* a call has raised (urlparse on a malformed URL); nothing runs after a raise
Frontier(q, s, l) == [queue |-> q, seen |-> s, log |-> l, err |-> FALSE]

enqueue_unseen(c, r, f, u0) ==
    LET u == urldefrag(u0) IN
    IF f.err THEN f
    ELSE IF u = NoUrl THEN f
    ELSE IF u.bad THEN [f EXCEPT !.err = TRUE]
    ELSE IF allowed(c, r, u)
         THEN [f EXCEPT !.seen = @ \cup {u}, !.queue = Append(@, u), !.log = Append(@, u)]
         ELSE f

enqueue(c, r, f, u0) ==
    LET u == urldefrag(u0) IN
    IF f.err THEN f
    ELSE IF u = NoUrl \/ u \in f.seen THEN f
    ELSE IF u.bad THEN [f EXCEPT !.err = TRUE]
    ELSE IF allowed(c, r, u)
         THEN [f EXCEPT !.seen = @ \cup {u}, !.queue = Append(@, u), !.log = Append(@, u)]
         ELSE f

RECURSIVE enqueue_all(_, _, _, _)
enqueue_all(c, r, f, us) ==
    IF us = <<>> THEN f
    ELSE enqueue_all(c, r, enqueue(c, r, f, Head(us)), Tail(us))

----------------------------------------------------------------------------
(* The rendered strategy *)

\* how the three waits of one JSRenderer.get end: page.goto; then
\* wait_for_selector, or wait_for_timeout when no selector is configured ("none");
\* then wait_for_load_state.  "timeout" is PlaywrightTimeoutError, "error" any
\* other exception
RenderOutcomes ==
    [goto : {"ok", "timeout", "error"},
     wait : {"none", "ok", "timeout", "error"},
     idle : {"ok", "timeout", "error"}]

Got(ok, g, w, i) == [ok |-> ok, gotos |-> 1, goto |-> g, wait |-> w, idle |-> i]
NoNav == [ok |-> FALSE, gotos |-> 0, goto |-> "-", wait |-> "-", idle |-> "-"]

JSRenderer_get_strict(o) ==
    IF o.goto # "ok" THEN Got(FALSE, o.goto, "-", "-")
    ELSE IF o.wait \in {"error", "timeout"} THEN Got(FALSE, "ok", o.wait, "-")
    ELSE IF o.idle \in {"error", "timeout"} THEN Got(FALSE, "ok", o.wait, o.idle)
    ELSE Got(TRUE, "ok", o.wait, o.idle)

\* lines 70-89: ok tells whether get returned the content (TRUE) or was left by
\* an exception; the other fields tell which calls were made and how they ended
\* ("-": not reached).  Only PlaywrightTimeoutError is caught, and only around
\* the two waits
JSRenderer_get(o) ==
    IF o.goto # "ok" THEN Got(FALSE, o.goto, "-", "-")
    ELSE IF o.wait = "error" THEN Got(FALSE, "ok", o.wait, "-")
    ELSE IF o.idle = "error" THEN Got(FALSE, "ok", o.wait, o.idle)
    ELSE Got(TRUE, "ok", o.wait, o.idle)

RenderResults == {JSRenderer_get(o) : o \in RenderOutcomes}

\* what the history keeps of a get: how the navigation ended and how the two
\* waits ended together ("error" if one raised, else "timeout" if one timed out)
Summary(g) ==
    [ok |-> g.ok, gotos |-> g.gotos, goto |-> g.goto,
     waits |-> IF "error" \in {g.wait, g.idle} THEN "error"
               ELSE IF "timeout" \in {g.wait, g.idle} THEN "timeout"
               ELSE IF g.goto = "ok" THEN "ok" ELSE "-"]

----------------------------------------------------------------------------
(* The state machine *)

\* no function is called on its own during a crawl
NoProbe == [fn |-> "none", arg |-> <<>>, called |-> FALSE, ret |-> <<>>]

NoSeedLog == [n |-> 0, failed |-> FALSE, doc |-> NoDoc, nested |-> <<>>, dropped |-> 0]

Init ==
    /\ cfg \in Configs
    /\ pc = "robots"
    /\ rp = NoRobots
    /\ renderer = "none"
    /\ closes = 0
    /\ sitemaps = <<>>
    /\ urls = <<>>
    /\ smlog = NoSeedLog
    /\ queue = <<>>
    /\ seen = {}
    /\ records = <<>>
    /\ url = NoUrl
    /\ final_url = NoUrl
    /\ exc = FALSE
    /\ exported = NotExported
    /\ sleeps = 0
    /\ enqlog = <<>>
    /\ deqlog = <<>>
    /\ fetched = <<>>
    /\ nav = [gotos |-> 0, last |-> Summary(NoNav)]
    /\ probe = NoProbe

TheFrontier == Frontier(queue, seen, enqlog)

\* the frontier's fields after a run of enqueue calls that ended in f
Commit(f) == queue' = f.queue /\ seen' = f.seen /\ enqlog' = f.log

\* line 278: build_robot_parser, when robots compliance is on
BuildRobotParser ==
    /\ pc = "robots"
    /\ rp' \in IF cfg.obey_robots /\ ~cfg.start_url.bad
               THEN {NoRobots} \cup RobotPolicies
               ELSE {NoRobots}
    /\ pc' = "renderer"
    /\ UNCHANGED <<probe, nav, cfg, renderer, closes, sitemaps, urls, smlog, queue, seen, records,
                   url, final_url, exc, exported, sleeps, enqlog, deqlog, fetched>>

\* lines 280-282: JSRenderer(...) acquires the browser session, or raises
AcquireRenderer ==
    /\ pc = "renderer"
    /\ IF cfg.use_js
       THEN \/ renderer' = "open" /\ pc' = "discover"
            \/ renderer' = "none" /\ pc' = "raised"
       ELSE renderer' = "none" /\ pc' = "discover"
    /\ UNCHANGED <<probe, nav, cfg, rp, closes, sitemaps, urls, smlog, queue, seen, records,
                   url, final_url, exc, exported, sleeps, enqlog, deqlog, fetched>>

\* line 298: discover_sitemaps(start_url, ...); urljoin at line 231 is outside
\* the try of lines 224-230 and raises on a malformed start URL
DiscoverSitemaps ==
    /\ pc = "discover"
    /\ IF cfg.start_url.bad
       THEN sitemaps' = <<>> /\ pc' = "raised"
       ELSE \E lines \in SitemapLines(cfg) :
                sitemaps' = discover_sitemaps(cfg, lines) /\ pc' = "seed"
    /\ UNCHANGED <<probe, nav, cfg, rp, renderer, closes, urls, smlog, queue, seen, records,
                   url, final_url, exc, exported, sleeps, enqlog, deqlog, fetched>>

NextSitemap_raise ==
    /\ pc = "seed" /\ sitemaps # <<>>
    /\ sitemaps' = Tail(sitemaps)
    /\ \E r \in FetchResults(cfg.retries) :
         IF ~r.ok
         THEN /\ urls' = <<>> /\ pc' = "raised"
              /\ smlog' = [smlog EXCEPT !.failed = TRUE]
         ELSE \E d \in TopDocs :
              /\ urls' = parse_sitemap_urls(d)
              /\ pc' = IF urls' = <<>> THEN "seed" ELSE "entries"
              /\ smlog' = IF urls' = <<>> THEN smlog
                          ELSE [smlog EXCEPT !.n = @ + 1, !.doc = d, !.nested = <<>>]
    /\ UNCHANGED <<probe, nav, cfg, rp, renderer, closes, queue, seen, records,
                   url, final_url, exc, exported, sleeps, enqlog, deqlog, fetched>>

\* lines 298-301: the next candidate is fetched and parsed; a failure is
\* swallowed by the except of line 307
NextSitemap ==
    /\ pc = "seed" /\ sitemaps # <<>>
    /\ sitemaps' = Tail(sitemaps)
    /\ \E r \in FetchResults(cfg.retries) :
         IF ~r.ok
         THEN /\ urls' = <<>> /\ pc' = "seed"
              /\ smlog' = [smlog EXCEPT !.failed = TRUE]
         ELSE \E d \in TopDocs :
              /\ urls' = parse_sitemap_urls(d)
              /\ pc' = IF urls' = <<>> THEN "seed" ELSE "entries"
              /\ smlog' = IF urls' = <<>> THEN smlog
                          ELSE [smlog EXCEPT !.n = @ + 1, !.doc = d, !.nested = <<>>]
    /\ UNCHANGED <<probe, nav, cfg, rp, renderer, closes, queue, seen, records,
                   url, final_url, exc, exported, sleeps, enqlog, deqlog, fetched>>

\* lines 302-307: one entry of the current candidate: fetched as a sitemap when
\* it ends in ".xml", offered to enqueue otherwise; an exception ends the
\* candidate (except of line 307: continue)
SeedEntry ==
    /\ pc = "entries"
    /\ LET u == Head(urls)
           Step(f) == /\ Commit(f)
                      /\ urls' = IF f.err THEN <<>> ELSE Tail(urls)
                      /\ pc' = IF urls' = <<>> THEN "seed" ELSE "entries"
       IN IF EndsWithXml(u)
          THEN \E r \in FetchResults(cfg.retries) :
                 IF ~r.ok
                 THEN /\ urls' = <<>> /\ pc' = "seed"
                      /\ smlog' = [smlog EXCEPT !.failed = TRUE,
                                                !.nested = Append(@, u),
                                                !.dropped = @ + Len(urls) - 1]
                      /\ UNCHANGED <<queue, seen, enqlog>>
                 ELSE /\ Step(enqueue_all(cfg, rp, TheFrontier,
                                          parse_sitemap_urls(SitemapAt(u))))
                      /\ smlog' = [smlog EXCEPT !.nested = Append(@, u)]
          ELSE Step(enqueue(cfg, rp, TheFrontier, u)) /\ UNCHANGED smlog
    /\ UNCHANGED <<probe, nav, cfg, rp, renderer, closes, sitemaps, records,
                   url, final_url, exc, exported, sleeps, deqlog, fetched>>

\* the for loop of line 298 is over
SeedingDone ==
    /\ pc = "seed" /\ sitemaps = <<>>
    /\ pc' = "fallback"
    /\ UNCHANGED <<probe, nav, cfg, rp, renderer, closes, sitemaps, urls, smlog, queue, seen, records,
                   url, final_url, exc, exported, sleeps, enqlog, deqlog, fetched>>

\* line 309: if not queue: enqueue(start_url); the history of seeding is closed
Fallback ==
    /\ pc = "fallback"
    /\ LET f == IF queue = <<>> THEN enqueue(cfg, rp, TheFrontier, cfg.start_url)
                ELSE TheFrontier
       IN Commit(f) /\ pc' = IF f.err THEN "raised" ELSE "loop"
    /\ smlog' = NoSeedLog
    /\ UNCHANGED <<probe, nav, cfg, rp, renderer, closes, sitemaps, urls, records,
                   url, final_url, exc, exported, sleeps, deqlog, fetched>>

\* line 312: the guard of the while loop
LoopGuard == queue # <<>> /\ Len(records) < cfg.max_pages

Dequeue_pop ==
    /\ pc = "loop" /\ LoopGuard
    /\ url' = queue[Len(queue)]
    /\ queue' = SubSeq(queue, 1, Len(queue) - 1)
    /\ deqlog' = Append(deqlog, queue[Len(queue)])
    /\ pc' = "resolve"
    /\ nav' = [nav EXCEPT !.last = Summary(NoNav)]
    /\ UNCHANGED <<probe, cfg, rp, renderer, closes, sitemaps, urls, smlog, seen, records,
                   final_url, exc, exported, sleeps, enqlog, fetched>>

\* lines 312-313
Dequeue ==
    /\ pc = "loop" /\ LoopGuard
    /\ url' = Head(queue)
    /\ queue' = Tail(queue)
    /\ deqlog' = Append(deqlog, Head(queue))
    /\ pc' = "resolve"
    /\ nav' = [nav EXCEPT !.last = Summary(NoNav)]
    /\ UNCHANGED <<probe, cfg, rp, renderer, closes, sitemaps, urls, smlog, seen, records,
                   final_url, exc, exported, sleeps, enqlog, fetched>>

LoopExit ==
    /\ pc = "loop" /\ ~LoopGuard
    /\ pc' = "finally"
    /\ UNCHANGED <<probe, nav, cfg, rp, renderer, closes, sitemaps, urls, smlog, queue, seen, records,
                   url, final_url, exc, exported, sleeps, enqlog, deqlog, fetched>>

SkipPage_requeue ==
    /\ pc' = "loop"
    /\ queue' = Append(queue, url)
    /\ UNCHANGED <<seen, enqlog, records, sleeps, final_url, fetched>>

\* lines 320-322: the fetch layer raised: warn and continue
SkipPage ==
    /\ pc' = "loop"
    /\ UNCHANGED <<queue, seen, enqlog, records, sleeps, final_url, fetched>>

\* the fetch layer returned a document and reported the URL fu
GotPage(fu) ==
    /\ final_url' = fu
    /\ fetched' = Append(fetched, [url |-> url, final_url |-> fu])
    /\ pc' = "process"
    /\ UNCHANGED <<queue, seen, enqlog, records, sleeps>>

\* lines 315-322: resolve the dequeued URL with the strategy chosen at start
Resolve ==
    /\ pc = "resolve"
    /\ IF renderer = "open"
       THEN \E r \in RenderResults :
              /\ nav' = [gotos |-> nav.gotos + r.gotos, last |-> Summary(r)]
              /\ IF r.ok
                 THEN \E fu \in FinalUrls(url) : GotPage(fu)
                 ELSE SkipPage
       ELSE \E r \in FetchResults(cfg.retries) :
              /\ UNCHANGED nav
              /\ IF r.ok
                 THEN \E fu \in FinalUrls(url) : GotPage(fu)
                 ELSE SkipPage
    /\ UNCHANGED <<probe, cfg, rp, renderer, closes, sitemaps, urls, smlog, url, exc,
                   exported, deqlog>>

\* lines 326-328: the hrefs that reach enqueue
IsNavigational(h) == h # NoUrl /\ h.scheme \notin {"mailto", "tel", "javascript"}

RECURSIVE extract_links(_, _, _, _, _)
extract_links(c, r, f, links, base) ==
    IF links = <<>> THEN f
    ELSE extract_links(c, r,
             IF IsNavigational(Head(links))
             THEN enqueue(c, r, f, absolutize(Head(links), base))
             ELSE f,
             Tail(links), base)

PageRecord(u, fu, h) ==
    [source_url |-> u, final_url |-> fu, slug |-> get_slug(fu),
     title |-> IF extract_title(h) = "" THEN get_slug(fu) ELSE extract_title(h)]

\* lines 324-344: links, extraction, record, politeness delay; html is the
\* document the fetch layer returned, read here for the first time
ProcessPage ==
    /\ pc = "process"
    /\ \E html \in Pages :
         LET f == extract_links(cfg, rp, TheFrontier, html.links, final_url)
         IN /\ Commit(f)
            /\ IF f.err \/ extract_title(html.head) = Raise
               THEN exc' = TRUE /\ pc' = "finally" /\ UNCHANGED <<records, sleeps>>
               ELSE /\ records' = Append(records, PageRecord(url, final_url, html.head))
                    /\ sleeps' = sleeps + (IF cfg.sleep_s > 0 THEN 1 ELSE 0)
                    /\ exc' = FALSE /\ pc' = "loop"
    /\ nav' = [nav EXCEPT !.last = Summary(NoNav)]
    /\ UNCHANGED <<probe, cfg, rp, renderer, closes, sitemaps, urls, smlog, url, final_url,
                   exported, deqlog, fetched>>

\* lines 345-346: the finally clause
Finally ==
    /\ pc = "finally"
    /\ IF renderer = "open"
       THEN renderer' = "closed" /\ closes' = closes + 1
       ELSE UNCHANGED <<renderer, closes>>
    /\ pc' = IF exc THEN "raised" ELSE "export"
    /\ UNCHANGED <<probe, nav, cfg, rp, sitemaps, urls, smlog, queue, seen, records,
                   url, final_url, exc, exported, sleeps, enqlog, deqlog, fetched>>

\* lines 348-353: the records are handed to the exporter
Export ==
    /\ pc = "export"
    /\ exported' = records
    /\ pc' = "done"
    /\ UNCHANGED <<probe, nav, cfg, rp, renderer, closes, sitemaps, urls, smlog, queue, seen, records,
                   url, final_url, exc, sleeps, enqlog, deqlog, fetched>>

Next ==
    \/ BuildRobotParser \/ AcquireRenderer \/ DiscoverSitemaps
    \/ NextSitemap \/ SeedEntry \/ SeedingDone \/ Fallback
    \/ Dequeue \/ LoopExit \/ Resolve \/ ProcessPage \/ Finally \/ Export

Spec == Init /\ [][Next]_vars

----------------------------------------------------------------------------
(* The functions of the module, each called once on an argument of its domain *)

NormalizeCalls ==
    {[fn |-> "normalize_ws", arg |-> s, called |-> FALSE, ret |-> <<>>] : s \in Strings}

FetchCalls ==
    UNION {{[fn |-> "fetch", arg |-> [retries |-> n, outs |-> o],
             called |-> FALSE, ret |-> <<>>] : o \in Outcomes(n)} : n \in 0..MaxRetries}

TitleCalls ==
    {[fn |-> "extract_title", arg |-> h, called |-> FALSE, ret |-> <<>>] : h \in HeadCases}

BlockCalls ==
    {[fn |-> "extract_blocks", arg |-> c, called |-> FALSE, ret |-> <<>>] : c \in Containers}

Calls == NormalizeCalls \cup FetchCalls \cup TitleCalls \cup BlockCalls

\* no crawl is running
FnInit ==
    /\ probe \in Calls
    /\ cfg \in {c \in Configs : c.start_url = Home /\ c.max_pages = 0 /\ c.sleep_s = 0
                                  /\ c.obey_robots /\ ~c.use_js
                                  /\ c.allowed_path_re = DefaultPattern}
    /\ pc = "idle"
    /\ rp = NoRobots /\ renderer = "none" /\ closes = 0
    /\ sitemaps = <<>> /\ urls = <<>> /\ smlog = NoSeedLog
    /\ queue = <<>> /\ seen = {} /\ records = <<>>
    /\ url = NoUrl /\ final_url = NoUrl /\ exc = FALSE
    /\ exported = NotExported /\ sleeps = 0
    /\ enqlog = <<>> /\ deqlog = <<>> /\ fetched = <<>>
    /\ nav = [gotos |-> 0, last |-> Summary(NoNav)]

Crawl == <<cfg, pc, rp, renderer, closes, sitemaps, urls, smlog, queue, seen,
           records, url, final_url, exc, exported, sleeps, enqlog, deqlog, fetched,
           nav>>

Call_normalize_ws ==
    /\ probe.fn = "normalize_ws" /\ ~probe.called
    /\ probe' = [probe EXCEPT !.called = TRUE, !.ret = normalize_ws(probe.arg)]
    /\ UNCHANGED Crawl

Call_fetch ==
    /\ probe.fn = "fetch" /\ ~probe.called
    /\ probe' = [probe EXCEPT !.called = TRUE,
                              !.ret = fetch(probe.arg.outs, probe.arg.retries)]
    /\ UNCHANGED Crawl

Call_extract_title ==
    /\ probe.fn = "extract_title" /\ ~probe.called
    /\ probe' = [probe EXCEPT !.called = TRUE, !.ret = extract_title(probe.arg)]
    /\ UNCHANGED Crawl

Call_extract_blocks ==
    /\ probe.fn = "extract_blocks" /\ ~probe.called
    /\ probe' = [probe EXCEPT !.called = TRUE, !.ret = extract_blocks(probe.arg)]
    /\ UNCHANGED Crawl

FnNext ==
    \/ Call_normalize_ws \/ Call_fetch \/ Call_extract_title \/ Call_extract_blocks

FnSpec == FnInit /\ [][FnNext]_vars

----------------------------------------------------------------------------
(* Properties *)

Range(s) == {s[i] : i \in 1..Len(s)}
NoDup(s) == \A i, j \in 1..Len(s) : s[i] = s[j] => i = j
Pos(x, s) == CHOOSE i \in 1..Len(s) : s[i] = x

\* every URL a sitemap or a page of the model can offer to enqueue
Offers ==
    UNION {Range(d.locs) : d \in TopDocs} \cup UNION {Range(SitemapAt(u).locs) : u \in {Sm1, Sm2, Sm3, SmBad}}
        \cup {absolutize(h, b) : h \in Hrefs, b \in {PA, Ext}} \cup {cfg.start_url}

\* C1: every defragmented URL is appended to the queue at most once over the
\* whole crawl, so no URL is dequeued or fetched twice; and enqueue of a URL whose
\* defragmented form is in the seen-set changes neither the queue nor the seen-set.
C1_EnqueuedAtMostOnce ==
    /\ NoDup(enqlog) /\ NoDup(deqlog)
    /\ NoDup([i \in 1..Len(fetched) |-> fetched[i].url])
    /\ \A u \in Range(enqlog) : u.frag = ""
    /\ Range(enqlog) = seen
    /\ \A u \in Offers :
         urldefrag(u) \in seen => enqueue(cfg, rp, TheFrontier, u) = TheFrontier

\* the index listed Sm1 (PA) and Sm2 (PA#top, PB): PA#top was a re-discovery
C1_Witness ==
    /\ pc = "seed" /\ smlog.doc = Doc("sitemapindex", <<Sm1, Sm2>>) /\ urls = <<>>
    /\ queue = <<PA, PB>> /\ seen = {PA, PB}

\* C2: no URL whose host differs, case-insensitively, from the start URL's host
\* is in the queue or in the seen-set.
C2_SameHostOnly ==
    \A u \in seen \cup Range(queue) \cup Range(enqlog) :
        Lower(u.host) = Lower(cfg.start_url.host)

\* a page was fetched after a redirect to the other host, the sitemaps had listed
\* a URL of the other host, and a URL with the host in capitals was admitted
C2_Witness ==
    /\ pc = "loop" /\ Len(records) >= 1 /\ records[1].final_url = Ext
    /\ PB \in seen /\ PB.host # cfg.start_url.host

\* C3: when seeding ends (fallback applied), the queue holds at least one URL.
C3_SeededNonEmpty ==
    (pc = "loop" /\ deqlog = <<>>) => queue # <<>>

\* C4: a browser session that was acquired is released exactly once before
\* crawl_and_export returns or raises, and never released twice.
C4_ReleasedExactlyOnce ==
    /\ closes <= 1
    /\ (pc \in {"export", "done", "raised"} /\ cfg.use_js /\ renderer # "none")
           => (renderer = "closed" /\ closes = 1)

\* C5: once the rendering resource is acquired or not needed, no failure while
\* a page is processed aborts the crawl: no exception leaves the loop body, and
\* the crawl does not end by raising after a page was dequeued.
C5_PageFailureNeverAborts ==
    /\ ~exc
    /\ pc = "raised" => deqlog = <<>>

\* C6: a failed fetch leaves records, seen-set and the rest of the queue as they
\* are, takes no politeness delay and extracts no link, and the loop goes on; the
\* URL is out of the queue, stays in the seen-set and is never dequeued again.
C6_FetchFailureSkipsPage ==
    /\ [][(pc = "resolve" /\ pc' # "process") =>
            /\ pc' = "loop" /\ ~exc'
            /\ UNCHANGED <<records, seen, queue, enqlog, sleeps, fetched, deqlog>>
            /\ url \in seen' /\ url \notin Range(queue')]_vars
    /\ [](\A u \in Range(deqlog) : u \in seen /\ u \notin Range(queue))
    /\ [](NoDup(deqlog \o queue))

\* a fetch has failed and the loop is about to dequeue the next URL
C6_Witness ==
    /\ pc = "loop" /\ LoopGuard
    /\ Len(deqlog) > Len(fetched) /\ Len(records) = Len(fetched)

\* C7: records are in dequeue order, and dequeue order is enqueue order: what
\* was enqueued is what was dequeued followed by what is still queued.
C7_FifoOrder ==
    /\ enqlog = deqlog \o queue
    /\ \A i, j \in 1..Len(records) :
         i < j => Pos(records[i].source_url, enqlog) < Pos(records[j].source_url, enqlog)
    /\ \A i \in 1..Len(records) : records[i].source_url \in Range(deqlog)

\* two records are out, the second from a URL a page discovered, and more is queued
C7_Witness ==
    /\ Len(records) = 2 /\ queue # <<>>
    /\ records[2].source_url = U("https", SiteHost, <<"focode", "c">>, "")

\* C8: the record count never exceeds max_pages, nothing is dequeued or fetched
\* once it equals max_pages, and the loop ends exactly when the queue is empty
\* or the count has reached the budget.
C8_BudgetEndsLoop ==
    /\ Len(records) <= cfg.max_pages
    /\ pc \in {"resolve", "process"} => Len(records) < cfg.max_pages
    /\ pc \in {"finally", "export", "done"} \/ (pc = "raised" /\ deqlog # <<>>)
           => (queue = <<>> \/ Len(records) = cfg.max_pages)

\* C9: the i-th record carries the URL as dequeued and the final URL reported by
\* the i-th successful fetch, and every successful fetch has its record.
C9_OneRecordPerFetch ==
    pc # "process" =>
        /\ Len(records) = Len(fetched)
        /\ \A i \in 1..Len(records) :
             /\ records[i].source_url = fetched[i].url
             /\ records[i].final_url = fetched[i].final_url

\* the URLs enqueue admits among those of a list, each once, in order
Admitted(us) ==
    enqueue_all(cfg, rp, Frontier(<<>>, {}, <<>>),
                SelectSeq(us, LAMBDA u : ~u.bad)).queue

IndexOfTwoUrlSets(d) ==
    /\ d.shape = "sitemapindex" /\ Len(d.locs) = 2
    /\ \A i \in 1..2 : SitemapAt(d.locs[i]).shape = "urlset"

\* C10: when the only sitemap with entries is a sitemap-index of two url-sets and
\* every fetch succeeded, the queue after seeding is the admissible URLs of both
\* url-sets, each once, in the order first met.
C10_IndexSeedsUnion ==
    (pc = "fallback" /\ smlog.n = 1 /\ ~smlog.failed /\ IndexOfTwoUrlSets(smlog.doc))
        => queue = Admitted(SitemapAt(smlog.doc.locs[1]).locs
                              \o SitemapAt(smlog.doc.locs[2]).locs)

\* C11: with robots compliance on and the robots file unobtainable, the robots
\* check rejects no URL: a URL is admitted exactly when its scheme, host and path
\* pass, which is the answer given when robots compliance is off.
C11_NoRobotsNoRejection ==
    (pc # "robots" /\ cfg.obey_robots /\ ~rp.present) =>
        /\ \A u \in Offers : ~u.bad =>
             /\ allowed(cfg, rp, u) <=>
                    (/\ is_http_url(u) /\ same_site(u, cfg.start_url)
                     /\ re_match(cfg.allowed_path_re, u.path))
             /\ allowed(cfg, rp, u) <=>
                    allowed([cfg EXCEPT !.obey_robots = FALSE], NoRobots, u)
        /\ \A u \in seen :
             /\ is_http_url(u) /\ same_site(u, cfg.start_url)
             /\ re_match(cfg.allowed_path_re, u.path)

\* robots compliance was asked for, the robots file could not be had, and the
\* path the site's robots file disallows was admitted and recorded
C11_Witness ==
    /\ cfg.obey_robots /\ ~rp.present
    /\ \E i \in 1..Len(records) : records[i].source_url = PA
    /\ \E r \in RobotPolicies : ~can_fetch(r, PA)

\* C12: normalize_ws is idempotent: applied to its own result it returns that
\* result.
C12_NormalizeIdempotent ==
    (probe.fn = "normalize_ws" /\ probe.called) =>
        normalize_ws(probe.ret) = probe.ret

\* a string with runs of spaces and tabs inside and white space at both ends was
\* normalized to something shorter
C12_Witness ==
    /\ probe.fn = "normalize_ws" /\ probe.called
    /\ probe.arg = <<" ", "a", "\t", " ", "a">>
    /\ probe.ret = <<"a", " ", "a">>

\* the number of GETs of a call whose i-th GET is answered outs[i]: up to and
\* including the first success, all of them when none succeeds
Attempts(outs) ==
    IF \E i \in DOMAIN outs : outs[i]
    THEN CHOOSE i \in DOMAIN outs : outs[i] /\ \A j \in 1..(i - 1) : ~outs[j]
    ELSE Len(outs)

\* C13: for retries >= 0 the static fetch makes at most retries + 1 GETs, returns
\* at the first success without another GET, sleeps exactly between two attempts
\* with a delay that doubles and never after the last attempt, and raises only
\* when all retries + 1 GETs failed, with the error of the last of them.
C13_FetchRetries ==
    (probe.fn = "fetch" /\ probe.called) =>
        LET n == probe.arg.retries
            outs == probe.arg.outs
            e == probe.ret.events
            k == Attempts(outs)
        IN /\ Cardinality({i \in DOMAIN e : e[i].op = "get"}) = k /\ k <= n + 1
           /\ Len(e) = 2 * k - 1
           /\ \A i \in 1..k : e[2 * i - 1] = Get(i)
           /\ \A i \in 1..(k - 1) : e[2 * i] = Sleep(2 ^ (i - 1)) /\ ~outs[i]
           /\ e[Len(e)].op = "get"
           /\ probe.ret.ok <=> outs[k]
           /\ ~probe.ret.ok <=> (k = n + 1 /\ \A i \in 1..(n + 1) : ~outs[i])
           /\ ~probe.ret.ok => probe.ret.err = n + 1

\* two GETs failed and the third succeeded: two sleeps, the second twice the first
C13_Witness ==
    /\ probe.fn = "fetch" /\ probe.called
    /\ probe.arg.retries = 3 /\ probe.arg.outs = <<FALSE, FALSE, TRUE, FALSE>>
    /\ probe.ret.ok
    /\ probe.ret.events = <<Get(1), Sleep(1), Get(2), Sleep(2), Get(3)>>

IsPrefix(s, t) == Len(s) <= Len(t) /\ SubSeq(t, 1, Len(s)) = s

\* C14 (as claimed): a failed sitemap fetch costs only that document's URLs: no
\* entry of an index is left unvisited because the fetch of an earlier entry of
\* the same index failed.
C14_FailureCostsOneDocument ==
    smlog.dropped = 0

\* what a step taken while seeding does to the frontier and to the candidates
SeedingStep ==
    pc \in {"seed", "entries"} =>
        /\ pc' \in {"seed", "entries", "fallback"}
        /\ IsPrefix(queue, queue') /\ seen \subseteq seen'
        /\ pc = "entries" => sitemaps' = sitemaps
        /\ (pc = "seed" /\ sitemaps # <<>>) => sitemaps' = Tail(sitemaps)
        /\ pc' = "fallback" => sitemaps = <<>>
        /\ (pc = "entries" /\ smlog'.dropped > smlog.dropped) =>
               /\ urls' = <<>> /\ pc' = "seed"
               /\ queue' = queue /\ seen' = seen
               /\ smlog'.dropped = smlog.dropped + Len(urls) - 1

\* C14 (amended): a fetch or parse failure while seeding is swallowed; URLs
\* enqueued before it stay enqueued; every later top-level candidate is still
\* fetched; and the failed fetch of a sitemap listed in an index ends that index:
\* its remaining entries are not visited.
C14_FailureEndsCandidateOnly == [][SeedingStep]_vars

\* the index listed Sm1 and Sm2: Sm1 gave PA, the fetch of Sm2 failed, and a
\* later candidate, a url-set, still gave PB
C14_Witness ==
    /\ pc = "seed" /\ smlog.failed /\ smlog.n = 2
    /\ smlog.doc = Doc("urlset", <<PB, PAf>>)
    /\ queue = <<PA, PB>>

\* C15: the shape of the listing document decides: no entry of a url-set is
\* fetched as a sitemap, and the entries of a sitemap-index are fetched as
\* sitemaps, each once, in order (all of them once the index is done, unless a
\* failed fetch or a malformed entry ended the index early).
C15_TreatedByShape ==
    (pc \in {"seed", "entries"} /\ smlog.n >= 1) =>
        LET d == smlog.doc
            visited == IF pc = "entries" THEN Len(d.locs) - Len(urls) ELSE Len(d.locs)
        IN /\ d.shape = "urlset" => smlog.nested = <<>>
           /\ (/\ d.shape = "sitemapindex"
               /\ smlog.dropped = 0
               /\ \A i \in 1..Len(d.locs) :
                     \A j \in 1..Len(SitemapAt(d.locs[i]).locs) :
                        ~SitemapAt(d.locs[i]).locs[j].bad)
                  => smlog.nested = SubSeq(d.locs, 1, visited)

\* what a step that resolves the dequeued URL with the renderer does
RenderedResolve ==
    (pc = "resolve" /\ renderer = "open") =>
        LET g == nav'.last IN
        /\ nav'.gotos = nav.gotos + 1 /\ g.gotos = 1
        /\ g.goto # "ok" =>
               /\ pc' = "loop" /\ ~exc'
               /\ UNCHANGED <<records, fetched, queue, seen, sleeps>>
        /\ (g.goto = "ok" /\ g.waits \in {"ok", "timeout"}) =>
               /\ pc' = "process" /\ ~exc'
               /\ Len(fetched') = Len(fetched) + 1
               /\ fetched'[Len(fetched')].url = url

EnqueueIsTotal(u) ==
    LET f == enqueue(cfg, rp, TheFrontier, u) IN
    /\ ~f.err
    /\ \/ f = TheFrontier
       \/ /\ f.queue = Append(queue, urldefrag(u))
          /\ f.seen = seen \cup {urldefrag(u)}

\* C17: enqueue has no error outcome: whatever a page links to and whatever a
\* sitemap lists, a malformed URL included, the step that offers it to enqueue
\* appends it or leaves queue and seen-set as they are, and raises nothing.
C17_EnqueueNeverRaises ==
    /\ pc = "process" =>
          \A h \in Hrefs : IsNavigational(h) => EnqueueIsTotal(absolutize(h, final_url))
    /\ (pc = "entries" /\ ~EndsWithXml(Head(urls))) => EnqueueIsTotal(Head(urls))

\* the text of a candidate of the title, "" when it is missing or has none
TextOf(v) == IF v \in {Absent, NoString} THEN "" ELSE norm(v)

RECURSIVE FirstNonEmpty(_)
FirstNonEmpty(vs) ==
    IF vs = <<>> THEN ""
    ELSE IF Head(vs) # "" THEN Head(vs) ELSE FirstNonEmpty(Tail(vs))

\* C18: the title is the first non-empty text among og:title, twitter:title, the
\* first h1 and the document title, in this order; a candidate that is missing
\* or empty is skipped, and a candidate without text never makes the
\* extraction fail.
C18_TitleFirstNonEmpty ==
    (probe.fn = "extract_title" /\ probe.called) =>
        /\ probe.ret # Raise
        /\ probe.ret = FirstNonEmpty(<<TextOf(probe.arg.og), TextOf(probe.arg.tw),
                                       TextOf(probe.arg.h1), TextOf(probe.arg.title)>>)

\* the heading blocks due for a container: one for each h1..h6 whose normalized
\* text is not empty, in document order
RECURSIVE HeadingsDue(_)
HeadingsDue(els) ==
    IF els = <<>> THEN <<>>
    ELSE LET el == Head(els)
             txt == normalize_ws(el.text)
         IN (IF el.name \in {"h1", "h2", "h3", "h4", "h5", "h6"} /\ txt # <<>>
             THEN <<ContentBlock("heading", Level(el.name), txt)>> ELSE <<>>)
                \o HeadingsDue(Tail(els))

IsBlank(t) == \A i \in 1..Len(t) : t[i] \in Whitespace

\* C19: the heading blocks emitted are, in document order, one for every
\* heading element of level 1 to 6 whose normalized text is not empty, with the
\* level of the tag name; and no block has an empty or blank text.
C19_HeadingsOneToSix ==
    (probe.fn = "extract_blocks" /\ probe.called) =>
        /\ SelectSeq(probe.ret, LAMBDA b : b.type = "heading") = HeadingsDue(probe.arg)
        /\ \A i \in 1..Len(probe.ret) :
             IF probe.ret[i].type = "list"
             THEN \A j \in 1..Len(probe.ret[i].text) : ~IsBlank(probe.ret[i].text[j])
             ELSE ~IsBlank(probe.ret[i].text)

\* the one way of ending that the claims leave out: the browser session could
\* not be acquired
AcquisitionFailed == pc = "raised" /\ cfg.use_js /\ renderer = "none"

\* C20: the crawl stops only in DONE: as long as it is not there a step is
\* possible, it never ends by an exception, DONE is entered with the renderer
\* released, and no more URLs were dequeued than were admitted, each once.
C20_TerminatesInDone ==
    /\ pc = "done" \/ AcquisitionFailed \/ ENABLED Next
    /\ pc = "raised" => AcquisitionFailed
    /\ pc \in {"export", "done"} => renderer # "open"
    /\ NoDup(deqlog) /\ Range(deqlog) \subseteq seen

====
